---- MODULE Spec2Model ----
(***************************************************************************)
(* Order / payment reconciliation of the e-commerce server:                *)
(* createPaymentIntent, confirmPaymentIntent, the payment_intent.succeeded *)
(* webhook and createOrderFromPaymentIntent (services/payment.service.ts), *)
(* over the cart snapshot (services/cart.service.ts) and the shipping      *)
(* rate resolver (services/shipping.service.ts).                           *)
(*                                                                         *)
(* Every await of createOrderFromPaymentIntent is one step, so that        *)
(* concurrent requests interleave where the event loop lets them.          *)
(***************************************************************************)
EXTENDS Integers, Sequences, FiniteSets, TLC

\* ---------------------------------------------------------------- bounds
Products == {"pA", "pB"}
Carts == {"c1"}
Users == {"u1", "u2"}
\* carts.user_id
CartOwner == [c \in Carts |-> "u1"]
AddressIds == {"a1"}
Handlers == {"h1", "h2"}
PriceSet == {1000, 1250}
MaxQty == 2
InitInventory == 3
\* at most MaxEdits cart, catalogue, address-book and re-quote events, and
\* at most MaxCalls confirm calls and webhook deliveries, in one behaviour
MaxEdits == 1
MaxCalls == 2

\* payment-intent ids, in the order the processor issues them
PIds == << "pi_1", "pi_2" >>

\* the quote tables the rate aggregator may answer with: raw rates in the
\* provider's order (objectId, provider_servicelevel token, amount in cents)
Quote(id, code, amount) == [rate_id |-> id, service_code |-> code, amount |-> amount]
QuoteTables ==
    { << Quote("r1", "usps_priority", 500), Quote("r2", "usps_express", 800) >>,
      << Quote("r2", "usps_express", 800), Quote("r1", "usps_priority", 650) >>,
      << Quote("r1", "usps_express", 800) >> }
ServiceCodes == {"usps_priority", "usps_express"}

\* the carts a behaviour may start from: one line of two, or two lines of one
InitCarts ==
    { [p \in Products |-> IF p = "pA" THEN 2 ELSE 0],
      [p \in Products |-> 1] }

RateIds == {"r1", "r2"}

\* ------------------------------------------------------ program constants
TaxRatePercent == 7
FreeShippingThreshold == 75
OrderValueDefault == 0

VARIABLES
    price,          \* products.price
    inventory,      \* products.inventory_quantity
    cartItems,      \* cart_items: quantity per (cart, product), 0 = no row
    addresses,      \* ids of the rows of the addresses table
    offers,         \* what the rate aggregator currently quotes
    intents,        \* the payment processor's payment intents, by id
    orders,         \* orders table, in insertion order; id = position
    orderItems,     \* order_items table
    procs,          \* requests in flight: one record per handler slot
    joinShape,      \* shape of the embedded products join: "array" | "object"
    singleOnEmpty,  \* answer of .single() to an empty result: "error" | "null"
    edits,          \* number of cart, catalogue, address and quote events so far
    calls,          \* number of requests and webhook deliveries so far
    jobs,           \* order requests in flight: one record per handler slot
    responses       \* the HTTP responses sent to webhook deliveries, in order

vars == << price, inventory, cartItems, addresses, offers, intents, orders,
           orderItems, procs, joinShape, singleOnEmpty, edits, calls,
           jobs, responses >>

\* ---------------------------------------------------------------- helpers
RECURSIVE SumOver(_, _)
SumOver(S, f) ==
    IF S = {} THEN 0
    ELSE LET x == CHOOSE y \in S : TRUE IN f[x] + SumOver(S \ {x}, f)

\* Math.round(x * 0.07) for a non-negative integer x: round half up
RoundTax(x) == (TaxRatePercent * x + 50) \div 100

ZeroQty == [p \in Products |-> 0]

\* ------------------------------------------------- shipping.service.ts
\* finalRate of calculateShippingRates: callers in payment.service.ts pass no
\* orderValue, so it defaults to 0 and is compared with the threshold
FinalRate(q) ==
    IF OrderValueDefault >= FreeShippingThreshold THEN 0 ELSE q.amount

ToShippingRate(q) ==
    [rate_id |-> q.rate_id, service_code |-> q.service_code, rate |-> FinalRate(q)]

\* the comparator of transformedRates.sort: free first, then by price
RateBefore(a, b) ==
    IF a.rate = 0 /\ b.rate # 0 THEN TRUE
    ELSE IF a.rate # 0 /\ b.rate = 0 THEN FALSE
    ELSE a.rate < b.rate

\* stable insertion of x into the sorted sequence s
InsertRate(x, s) ==
    LET before == {i \in 1..Len(s) : RateBefore(x, s[i])}
        k == IF before = {} THEN Len(s) + 1
             ELSE CHOOSE i \in before : \A j \in before : i <= j
    IN SubSeq(s, 1, k - 1) \o << x >> \o SubSeq(s, k, Len(s))

RECURSIVE SortRates(_)
SortRates(s) ==
    IF s = << >> THEN << >>
    ELSE InsertRate(s[Len(s)], SortRates(SubSeq(s, 1, Len(s) - 1)))

calculateShippingRates(quotes) ==
    SortRates([i \in 1..Len(quotes) |-> ToShippingRate(quotes[i])])

\* Array.prototype.find, as the index of the first match (0 if there is none)
FirstOf(hits) ==
    IF hits = {} THEN 0 ELSE CHOOSE i \in hits : \A j \in hits : i <= j

FindByServiceCode(rates, method) ==
    FirstOf({i \in 1..Len(rates) : rates[i].service_code = method})

FindByRateId(rates, id) ==
    FirstOf({i \in 1..Len(rates) : rates[i].rate_id = id})

\* ----------------------------------------------------- cart.service.ts
\* rows of cart_items of a cart
CartLines(c) == {p \in Products : cartItems[c][p] > 0}

\* summary.subtotal of getCartWithItems: a line is added only when the
\* embedded products value is an array
CartSubtotal(c) ==
    IF joinShape = "array"
    THEN SumOver(CartLines(c), [p \in Products |-> price[p] * cartItems[c][p]])
    ELSE 0

\* ------------------------------------------------------------------ Init
IdleProc ==
    [pc |-> "idle", pi |-> "none",
     qty |-> ZeroQty, unit |-> ZeroQty, inv |-> ZeroQty,
     subtotal |-> 0, shipping |-> 0, orderId |-> 0,
     result |-> "none", err |-> "none"]

\* an order request slot with no request in it
\* event.data.object of a webhook event, with the event's type: "" and 0 stand
\* for a field the object does not have
NoEvent ==
    [type |-> "none", id |-> "", payment_intent |-> "", charge |-> "",
     amount |-> 0, amount_refunded |-> 0, status |-> "", fraud_type |-> ""]

IdleJob ==
    [kind |-> "none", pc |-> "idle", order |-> 0, user |-> "none",
     status |-> "none", tracking |-> "", label |-> "none", lines |-> ZeroQty,
     result |-> "none", err |-> "none", event |-> NoEvent]

Init ==
    /\ price = [p \in Products |-> 1000]
    /\ inventory = [p \in Products |-> InitInventory]
    /\ cartItems \in [Carts -> InitCarts]
    /\ addresses = AddressIds
    /\ offers = << Quote("r1", "usps_priority", 500), Quote("r2", "usps_express", 800) >>
    /\ intents = << >>
    /\ orders = << >>
    /\ orderItems = {}
    /\ procs = [h \in Handlers |-> IdleProc]
    /\ joinShape \in {"array", "object"}
    /\ singleOnEmpty \in {"error", "null"}
    /\ edits = 0
    /\ calls = 0
    /\ jobs = [h \in Handlers |-> IdleJob]
    /\ responses = << >>

\* ------------------------------------------- cart and catalogue requests
addItemToCart(c, p, q) ==
    /\ edits < MaxEdits
    /\ edits' = edits + 1
    /\ inventory[p] >= q
    /\ cartItems[c][p] + q <= inventory[p]
    /\ cartItems[c][p] + q <= MaxQty
    /\ cartItems' = [cartItems EXCEPT ![c][p] = @ + q]
    /\ UNCHANGED << price, inventory, addresses, offers, intents, orders,
                    orderItems, procs, joinShape, singleOnEmpty, calls,
                    jobs, responses >>

updateCartItem(c, p, q) ==
    /\ edits < MaxEdits
    /\ edits' = edits + 1
    /\ cartItems[c][p] > 0
    /\ inventory[p] >= q
    /\ cartItems' = [cartItems EXCEPT ![c][p] = q]
    /\ UNCHANGED << price, inventory, addresses, offers, intents, orders,
                    orderItems, procs, joinShape, singleOnEmpty, calls,
                    jobs, responses >>

removeCartItem(c, p) ==
    /\ edits < MaxEdits
    /\ edits' = edits + 1
    /\ cartItems[c][p] > 0
    /\ cartItems' = [cartItems EXCEPT ![c][p] = 0]
    /\ UNCHANGED << price, inventory, addresses, offers, intents, orders,
                    orderItems, procs, joinShape, singleOnEmpty, calls,
                    jobs, responses >>

updateProduct(p, v) ==
    /\ edits < MaxEdits
    /\ edits' = edits + 1
    /\ price[p] # v
    /\ price' = [price EXCEPT ![p] = v]
    /\ UNCHANGED << inventory, cartItems, addresses, offers, intents, orders,
                    orderItems, procs, joinShape, singleOnEmpty, calls,
                    jobs, responses >>

deleteUserAddress(a) ==
    /\ edits < MaxEdits
    /\ edits' = edits + 1
    /\ a \in addresses
    /\ addresses' = addresses \ {a}
    /\ UNCHANGED << price, inventory, cartItems, offers, intents, orders,
                    orderItems, procs, joinShape, singleOnEmpty, calls,
                    jobs, responses >>

\* the aggregator answers the next shipment with another table
Requote(t) ==
    /\ edits < MaxEdits
    /\ edits' = edits + 1
    /\ t # offers
    /\ offers' = t
    /\ UNCHANGED << price, inventory, cartItems, addresses, intents, orders,
                    orderItems, procs, joinShape, singleOnEmpty, calls,
                    jobs, responses >>

\* -------------------------------------------------- createPaymentIntent
NextPId == PIds[Cardinality(DOMAIN intents) + 1]

\* a request without a metadata map, and the maps a caller sends here
NoMetadata == [k \in {} |-> "none"]
CallerMetadata ==
    { NoMetadata,
      [k \in {"note"} |-> "gift"],
      [k \in {"shipping_rate_id"} |-> "r2"],
      [k \in {"user_id"} |-> "u2"] }

\* a metadata object that ignores the caller's map
SpreadMetadata_OwnFieldsOnly(base, md) == base

\* {cart_id: ..., shipping_rate_id: ..., ...(data.metadata || {})}: a key of
\* the caller's map replaces the field of the same name
SpreadMetadata(base, md) ==
    [k \in DOMAIN base \cup DOMAIN md |-> IF k \in DOMAIN md THEN md[k] ELSE base[k]]

\* the fields of the request that go into the metadata
RequestFields(c, sa, ba, method, rateId) ==
    [cart_id |-> c, shipping_address_id |-> sa, billing_address_id |-> ba,
     shipping_method |-> method, shipping_rate_id |-> rateId]

\* the payment intent the processor creates: the metadata, the amount and
\* the status, with the request it was created for
NewIntent(c, sa, ba, method, rateId, md, totalAmount) ==
    SpreadMetadata(RequestFields(c, sa, ba, method, rateId) @@ [user_id |-> CartOwner[c]], md)
    @@ [amount |-> totalAmount, status |-> "requires_payment_method",
        request |-> RequestFields(c, sa, ba, method, rateId)]

\* a checkout that authorizes a payment for a cart without lines
createPaymentIntent_NoEmptyCheck(c, sa, ba, method, rateId, md) ==
    LET subtotal == CartSubtotal(c)
        rates == calculateShippingRates(offers)
        sel == FindByServiceCode(rates, method)
        taxAmount == RoundTax(subtotal)
        totalAmount == subtotal + taxAmount + rates[sel].rate
    IN /\ Cardinality(DOMAIN intents) < Len(PIds)
       /\ sa \in addresses
       /\ sel # 0
       /\ intents' = intents @@
              (NextPId :> NewIntent(c, sa, ba, method, rateId, md, totalAmount))
       /\ UNCHANGED << price, inventory, cartItems, addresses, offers, orders,
                       orderItems, procs, joinShape, singleOnEmpty, edits, calls,
                       jobs, responses >>

createPaymentIntent(c, sa, ba, method, rateId, md) ==
    LET subtotal == CartSubtotal(c)
        rates == calculateShippingRates(offers)
        sel == FindByServiceCode(rates, method)
        taxAmount == RoundTax(subtotal)
        totalAmount == subtotal + taxAmount + rates[sel].rate
    IN /\ Cardinality(DOMAIN intents) < Len(PIds)
       /\ CartLines(c) # {}
       /\ sa \in addresses
       /\ sel # 0
       /\ intents' = intents @@
              (NextPId :> NewIntent(c, sa, ba, method, rateId, md, totalAmount))
       /\ UNCHANGED << price, inventory, cartItems, addresses, offers, orders,
                       orderItems, procs, joinShape, singleOnEmpty, edits, calls,
                    jobs, responses >>

\* the customer completes the payment at the processor
PaymentSucceeds(pi) ==
    /\ pi \in DOMAIN intents
    /\ intents[pi].status = "requires_payment_method"
    /\ intents' = [intents EXCEPT ![pi].status = "succeeded"]
    /\ UNCHANGED << price, inventory, cartItems, addresses, offers, orders,
                    orderItems, procs, joinShape, singleOnEmpty, edits, calls,
                    jobs, responses >>

\* ------------------------------------------ createOrderFromPaymentIntent
\* rows of orders whose stripe_payment_intent_id is pi
OrdersOf(pi) == {i \in DOMAIN orders : orders[i].stripe_payment_intent_id = pi}

\* a store without the constraint: no insert is ever rejected
UniqueViolation_NoConstraint(pi) == FALSE

\* the storage-level uniqueness constraint on orders.stripe_payment_intent_id
UniqueViolation(pi) == OrdersOf(pi) # {}

\* the rows of the items join, in the order the loops of the materializer
\* visit them
ProductOrder == << "pA", "pB" >>

\* a request takes the first free slot
FreeSlot(h) ==
    /\ procs[h].pc \in {"idle", "done"}
    /\ h = "h1" \/ procs["h1"].pc \notin {"idle", "done"}

Throw(h, msg) ==
    [IdleProc EXCEPT !.pc = "done", !.pi = procs[h].pi,
                     !.result = "error", !.err = msg]

Return(h, id, res) ==
    [IdleProc EXCEPT !.pc = "done", !.pi = procs[h].pi,
                     !.result = res, !.orderId = id]

\* confirmPaymentIntent: retrieves the intent and materializes when it has
\* succeeded (any other status is returned without touching the store)
confirmPaymentIntent(h, pi) ==
    /\ FreeSlot(h)
    /\ calls < MaxCalls
    /\ calls' = calls + 1
    /\ pi \in DOMAIN intents
    /\ intents[pi].status = "succeeded"
    /\ procs' = [procs EXCEPT ![h] = [IdleProc EXCEPT !.pc = "check", !.pi = pi]]
    /\ UNCHANGED << price, inventory, cartItems, addresses, offers, intents,
                    orders, orderItems, joinShape, singleOnEmpty, edits,
                    jobs, responses >>

\* confirmPaymentIntent when stripe.paymentIntents.retrieve throws: the
\* processor cannot be reached
confirmRetrieveFails(h, pi) ==
    /\ FreeSlot(h)
    /\ calls < MaxCalls
    /\ calls' = calls + 1
    /\ pi \in DOMAIN intents
    /\ procs' = [procs EXCEPT ![h] =
           [IdleProc EXCEPT !.pc = "done", !.pi = pi, !.result = "error",
                            !.err = "processor unreachable"]]
    /\ UNCHANGED << price, inventory, cartItems, addresses, offers, intents,
                    orders, orderItems, joinShape, singleOnEmpty, edits,
                    jobs, responses >>

\* the error confirmPaymentIntent throws for an error it caught: its catch
\* replaces every error by AppError("Failed to confirm payment", 500)
ConfirmError(err) == "Failed to confirm payment"

\* error.message.includes("shipping"), over the messages that occur
IncludesShipping(msg) ==
    msg \in {"Selected shipping method not available",
              "Failed to calculate shipping rates"}

\* the response of checkPaymentStatus (GET payment-status) to a
\* confirmPaymentIntent that ended with error err ("none": it returned)
checkPaymentStatus(err) ==
    IF err = "none" THEN [status |-> 200, message |-> "success"]
    ELSE IF IncludesShipping(ConfirmError(err))
    THEN [status |-> 202, message |-> "Payment successful, order is being processed"]
    ELSE [status |-> 500, message |-> ConfirmError(err)]

\* handleStripeWebhook on payment_intent.succeeded
handlePaymentIntentSucceeded(h, pi) ==
    /\ FreeSlot(h)
    /\ calls < MaxCalls
    /\ calls' = calls + 1
    /\ pi \in DOMAIN intents
    /\ intents[pi].status = "succeeded"
    /\ procs' = [procs EXCEPT ![h] = [IdleProc EXCEPT !.pc = "check", !.pi = pi]]
    /\ UNCHANGED << price, inventory, cartItems, addresses, offers, intents,
                    orders, orderItems, joinShape, singleOnEmpty, edits,
                    jobs, responses >>

\* an existence check that never finds the order and carries on
ExistenceCheck_Blind(h) == [procs[h] EXCEPT !.pc = "cart"]

\* the existence check: .select("id").eq(...).single()
ExistenceCheck(h) ==
    LET rows == OrdersOf(procs[h].pi)
    IN IF Cardinality(rows) = 1
       THEN Return(h, CHOOSE i \in rows : TRUE, "existing")
       ELSE IF rows # {} \/ singleOnEmpty = "error"
       THEN Throw(h, "Failed to check existing order")
       ELSE [procs[h] EXCEPT !.pc = "cart"]

MatCheck(h) ==
    /\ procs[h].pc = "check"
    /\ procs' = [procs EXCEPT ![h] = ExistenceCheck(h)]
    /\ UNCHANGED << price, inventory, cartItems, addresses, offers, intents,
                    orders, orderItems, joinShape, singleOnEmpty, edits, calls,
                    jobs, responses >>

\* getCartWithItems(metadata.cart_id): the items with their joined product
MatCart(h) ==
    LET c == intents[procs[h].pi].cart_id
        lines == CartLines(c)
    IN /\ procs[h].pc = "cart"
       /\ procs' = [procs EXCEPT ![h] =
              IF lines = {} THEN Throw(h, "Cart is empty")
              ELSE [procs[h] EXCEPT
                      !.pc = "shipAddr",
                      !.qty = cartItems[c],
                      !.unit = [p \in Products |-> IF p \in lines THEN price[p] ELSE 0],
                      !.inv = [p \in Products |-> IF p \in lines THEN inventory[p] ELSE 0],
                      !.subtotal = CartSubtotal(c)]]
       /\ UNCHANGED << price, inventory, cartItems, addresses, offers, intents,
                       orders, orderItems, joinShape, singleOnEmpty, edits, calls,
                    jobs, responses >>

MatShipAddr(h) ==
    /\ procs[h].pc = "shipAddr"
    /\ procs' = [procs EXCEPT ![h] =
           IF intents[procs[h].pi].shipping_address_id \in addresses
           THEN [procs[h] EXCEPT !.pc = "billAddr"]
           ELSE Throw(h, "Shipping address not found")]
    /\ UNCHANGED << price, inventory, cartItems, addresses, offers, intents,
                    orders, orderItems, joinShape, singleOnEmpty, edits, calls,
                    jobs, responses >>

MatBillAddr(h) ==
    /\ procs[h].pc = "billAddr"
    /\ procs' = [procs EXCEPT ![h] =
           IF intents[procs[h].pi].billing_address_id \in addresses
           THEN [procs[h] EXCEPT !.pc = "rates"]
           ELSE Throw(h, "Billing address not found")]
    /\ UNCHANGED << price, inventory, cartItems, addresses, offers, intents,
                    orders, orderItems, joinShape, singleOnEmpty, edits, calls,
                    jobs, responses >>

\* a rate validation that accepts the token's offer whatever its service code
MatRates_NoCodeCheck(h) ==
    LET meta == intents[procs[h].pi]
        rates == calculateShippingRates(offers)
        sel == FindByRateId(rates, meta.shipping_rate_id)
    IN /\ procs[h].pc = "rates"
       /\ procs' = [procs EXCEPT ![h] =
              IF sel = 0 THEN Throw(h, "Selected shipping method not available")
              ELSE [procs[h] EXCEPT !.pc = "insertOrder",
                                    !.shipping = rates[sel].rate]]
       /\ UNCHANGED << price, inventory, cartItems, addresses, offers, intents,
                       orders, orderItems, joinShape, singleOnEmpty, edits, calls,
                       jobs, responses >>

\* calculateShippingRates, then the offer of the metadata's rate token
MatRates(h) ==
    LET meta == intents[procs[h].pi]
        rates == calculateShippingRates(offers)
        sel == FindByRateId(rates, meta.shipping_rate_id)
    IN /\ procs[h].pc = "rates"
       /\ procs' = [procs EXCEPT ![h] =
              IF sel = 0 THEN Throw(h, "Selected shipping method not available")
              ELSE IF rates[sel].service_code # meta.shipping_method
              THEN Throw(h, "Shipping method mismatch")
              ELSE [procs[h] EXCEPT !.pc = "insertOrder",
                                    !.shipping = rates[sel].rate]]
       /\ UNCHANGED << price, inventory, cartItems, addresses, offers, intents,
                       orders, orderItems, joinShape, singleOnEmpty, edits, calls,
                    jobs, responses >>

\* an insert that stores the total it recomputes instead of the intent's amount
OrderRow_Recomputed(h) ==
    [id |-> Len(orders) + 1,
     status |-> "paid",
     total_amount |-> procs[h].subtotal + RoundTax(procs[h].subtotal) + procs[h].shipping,
     subtotal |-> procs[h].subtotal,
     tax |-> RoundTax(procs[h].subtotal),
     shipping_cost |-> procs[h].shipping,
     stripe_payment_intent_id |-> procs[h].pi,
     user_id |-> intents[procs[h].pi].user_id,
     shipping_rate_id |-> intents[procs[h].pi].shipping_rate_id,
     tracking_number |-> "none",
     fraud_warning |-> FALSE,
     fraud_warning_details |-> "none"]

\* the row of the orders insert
OrderRow(h) ==
    [id |-> Len(orders) + 1,
     status |-> "paid",
     total_amount |-> intents[procs[h].pi].amount,
     subtotal |-> procs[h].subtotal,
     tax |-> RoundTax(procs[h].subtotal),
     shipping_cost |-> procs[h].shipping,
     stripe_payment_intent_id |-> procs[h].pi,
     user_id |-> intents[procs[h].pi].user_id,
     shipping_rate_id |-> intents[procs[h].pi].shipping_rate_id,
     tracking_number |-> "none",
     fraud_warning |-> FALSE,
     fraud_warning_details |-> "none"]

MatInsertOrder(h) ==
    /\ procs[h].pc = "insertOrder"
    /\ IF UniqueViolation(procs[h].pi)
       THEN /\ procs' = [procs EXCEPT ![h] = Throw(h, "Failed to create order")]
            /\ UNCHANGED orders
       ELSE /\ orders' = Append(orders, OrderRow(h))
            /\ procs' = [procs EXCEPT ![h] = [procs[h] EXCEPT
                            !.pc = "insertItems", !.orderId = Len(orders) + 1]]
    /\ UNCHANGED << price, inventory, cartItems, addresses, offers, intents,
                    orderItems, joinShape, singleOnEmpty, edits, calls,
                    jobs, responses >>

\* one order_items row per snapshot line
OrderItemRows(h) ==
    { [order_id |-> procs[h].orderId, product_id |-> p,
       quantity |-> procs[h].qty[p], unit_price |-> procs[h].unit[p],
       total_price |-> procs[h].unit[p] * procs[h].qty[p]]
      : p \in {x \in Products : procs[h].qty[x] > 0} }

\* the order_items insert; the store may reject it (itemsError)
MatInsertItems(h, rejected) ==
    /\ procs[h].pc = "insertItems"
    /\ IF rejected
       THEN /\ procs' = [procs EXCEPT ![h] = Throw(h, "Failed to add order items")]
            /\ UNCHANGED orderItems
       ELSE /\ orderItems' = orderItems \cup OrderItemRows(h)
            /\ procs' = [procs EXCEPT ![h] = [procs[h] EXCEPT !.pc = "inventory"]]
    /\ UNCHANGED << price, inventory, cartItems, addresses, offers, intents,
                    orders, joinShape, singleOnEmpty, edits, calls,
                    jobs, responses >>

\* the snapshot lines whose inventory update is still to come, and the next
Pending(h) == {i \in 1..Len(ProductOrder) : procs[h].qty[ProductOrder[i]] > 0}
NextLine(h) == ProductOrder[CHOOSE i \in Pending(h) : \A j \in Pending(h) : i <= j]

\* products.update({inventory_quantity: product.inventory_quantity - item.quantity})
NewInventory(h, p) == procs[h].inv[p] - procs[h].qty[p]

\* one iteration of the inventory loop
MatInventory(h) ==
    LET p == NextLine(h)
    IN /\ procs[h].pc = "inventory"
       /\ inventory' = [inventory EXCEPT ![p] = NewInventory(h, p)]
       /\ procs' = [procs EXCEPT ![h] = [procs[h] EXCEPT
              !.qty = [@ EXCEPT ![p] = 0],
              !.pc = IF Pending(h) = {CHOOSE i \in Pending(h) : ProductOrder[i] = p}
                     THEN "clearCart" ELSE "inventory"]]
       /\ UNCHANGED << price, cartItems, addresses, offers, intents, orders,
                       orderItems, joinShape, singleOnEmpty, edits, calls,
                    jobs, responses >>

\* a delete of the ordered lines only, by the products of the order's items
ClearedCart_OrderedOnly(h, c) ==
    [p \in Products |->
        IF \E it \in orderItems : it.order_id = procs[h].orderId /\ it.product_id = p
        THEN 0 ELSE cartItems[c][p]]

\* cart_items.delete().eq("cart_id", metadata.cart_id)
ClearedCart(h, c) == ZeroQty

MatClearCart(h) ==
    LET c == intents[procs[h].pi].cart_id
    IN /\ procs[h].pc = "clearCart"
       /\ cartItems' = [cartItems EXCEPT ![c] = ClearedCart(h, c)]
       /\ procs' = [procs EXCEPT ![h] = Return(h, procs[h].orderId, "created")]
       /\ UNCHANGED << price, inventory, addresses, offers, intents, orders,
                       orderItems, joinShape, singleOnEmpty, edits, calls,
                    jobs, responses >>

\* ---------------------------------------------------- order.service.ts
CancelableStatuses == {"pending", "paid", "processing"}
ValidStatuses ==
    {"pending", "paid", "processing", "shipped", "delivered", "cancelled", "refunded"}
\* the statuses the admin asks for here, and the tracking numbers sent along
\* ("": none)
AdminTargets == {"processing", "shipped", "delivered"}
TrackingInputs == {"", "1Z-manual"}

\* a request takes the first free slot
JobFree(h) ==
    /\ jobs[h].pc \in {"idle", "done"}
    /\ h = "h1" \/ jobs["h1"].pc \notin {"idle", "done"}

JobThrow(h, msg) ==
    [jobs[h] EXCEPT !.pc = "done", !.lines = ZeroQty, !.result = "error", !.err = msg]

JobReturn(h) ==
    [jobs[h] EXCEPT !.pc = "done", !.lines = ZeroQty, !.result = "success"]

\* a lookup by id alone
OrderOfUser_AnyUser(o, u) == {i \in DOMAIN orders : i = o}

\* orders .eq("id", orderId).eq("user_id", userId)
OrderOfUser(o, u) == {i \in DOMAIN orders : i = o /\ orders[i].user_id = u}

\* a check that lets every status through
Cancelable_Any(status) == TRUE

\* cancelableStatuses.includes(order.status)
Cancelable(status) == status \in CancelableStatuses

\* cancelOrder(orderId, userId)
cancelOrder(h, o, u) ==
    /\ JobFree(h)
    /\ calls < MaxCalls
    /\ calls' = calls + 1
    /\ jobs' = [jobs EXCEPT ![h] =
           [IdleJob EXCEPT !.kind = "cancel", !.pc = "read", !.order = o, !.user = u]]
    /\ UNCHANGED << price, inventory, cartItems, addresses, offers, intents,
                    orders, orderItems, procs, joinShape, singleOnEmpty, edits,
                    responses >>

\* the ownership read and the status check
CancelRead(h) ==
    LET o == jobs[h].order
    IN /\ jobs[h].kind = "cancel"
       /\ jobs[h].pc = "read"
       /\ jobs' = [jobs EXCEPT ![h] =
              IF OrderOfUser(o, jobs[h].user) = {} THEN JobThrow(h, "Order not found")
              ELSE IF ~Cancelable(orders[o].status)
              THEN JobThrow(h, "Order cannot be cancelled")
              ELSE [jobs[h] EXCEPT !.pc = "update"]]
       /\ UNCHANGED << price, inventory, cartItems, addresses, offers, intents,
                       orders, orderItems, procs, joinShape, singleOnEmpty, edits,
                       calls, responses >>

\* orders.update({status: "cancelled"}).eq("id", orderId)
CancelUpdate(h) ==
    /\ jobs[h].kind = "cancel"
    /\ jobs[h].pc = "update"
    /\ orders' = [orders EXCEPT ![jobs[h].order].status = "cancelled"]
    /\ jobs' = [jobs EXCEPT ![h] = [jobs[h] EXCEPT !.pc = "items"]]
    /\ UNCHANGED << price, inventory, cartItems, addresses, offers, intents,
                    orderItems, procs, joinShape, singleOnEmpty, edits, calls,
                    responses >>

\* the quantity per product of the order_items rows of order o
OrderLines(o) ==
    [p \in Products |->
        IF \E it \in orderItems : it.order_id = o /\ it.product_id = p
        THEN (CHOOSE it \in orderItems : it.order_id = o /\ it.product_id = p).quantity
        ELSE 0]

\* order_items.select("product_id, quantity").eq("order_id", orderId)
CancelItems(h) ==
    LET lines == OrderLines(jobs[h].order)
    IN /\ jobs[h].kind = "cancel"
       /\ jobs[h].pc = "items"
       /\ jobs' = [jobs EXCEPT ![h] =
              IF lines = ZeroQty THEN JobReturn(h)
              ELSE [jobs[h] EXCEPT !.pc = "restore", !.lines = lines]]
       /\ UNCHANGED << price, inventory, cartItems, addresses, offers, intents,
                       orders, orderItems, procs, joinShape, singleOnEmpty, edits,
                       calls, responses >>

\* the lines whose inventory is still to be restored, and the next
ToRestore(h) == {i \in 1..Len(ProductOrder) : jobs[h].lines[ProductOrder[i]] > 0}
NextRestore(h) == ProductOrder[CHOOSE i \in ToRestore(h) : \A j \in ToRestore(h) : i <= j]

\* a restore that leaves the inventory as it is
RestoredInventory_Unchanged(h, p) == inventory[p]

\* rpc("increment_inventory", {p_product_id, p_quantity}): an increment in
\* the store
RestoredInventory(h, p) == inventory[p] + jobs[h].lines[p]

\* one iteration of the restore loop
CancelRestore(h) ==
    LET p == NextRestore(h)
        left == [jobs[h].lines EXCEPT ![p] = 0]
    IN /\ jobs[h].kind = "cancel"
       /\ jobs[h].pc = "restore"
       /\ inventory' = [inventory EXCEPT ![p] = RestoredInventory(h, p)]
       /\ jobs' = [jobs EXCEPT ![h] =
              IF left = ZeroQty THEN JobReturn(h)
              ELSE [jobs[h] EXCEPT !.lines = left]]
       /\ UNCHANGED << price, cartItems, addresses, offers, intents, orders,
                       orderItems, procs, joinShape, singleOnEmpty, edits, calls,
                       responses >>

\* updateOrderStatus(orderId, status, trackingNumber) of the admin
updateOrderStatus(h, o, status, tracking) ==
    /\ JobFree(h)
    /\ calls < MaxCalls
    /\ calls' = calls + 1
    /\ jobs' = [jobs EXCEPT ![h] =
           [IdleJob EXCEPT !.kind = "admin", !.pc = "read", !.order = o,
                           !.status = status, !.tracking = tracking]]
    /\ UNCHANGED << price, inventory, cartItems, addresses, offers, intents,
                    orders, orderItems, procs, joinShape, singleOnEmpty, edits,
                    responses >>

\* the existence read and the validation of the requested status
AdminRead(h) ==
    /\ jobs[h].kind = "admin"
    /\ jobs[h].pc = "read"
    /\ jobs' = [jobs EXCEPT ![h] =
           IF jobs[h].order \notin DOMAIN orders THEN JobThrow(h, "Order not found")
           ELSE IF jobs[h].status \notin ValidStatuses
           THEN JobThrow(h, "Invalid order status")
           ELSE IF jobs[h].status = "shipped" /\ jobs[h].tracking = ""
           THEN [jobs[h] EXCEPT !.pc = "label"]
           ELSE [jobs[h] EXCEPT !.pc = "update"]]
    /\ UNCHANGED << price, inventory, cartItems, addresses, offers, intents,
                    orders, orderItems, procs, joinShape, singleOnEmpty, edits,
                    calls, responses >>

\* the tracking number of the label the aggregator sells for a rate token
LabelTrackingNumber(rate) == IF rate = "r1" THEN "1Z-r1" ELSE "1Z-r2"

\* a purchase with the express token, whatever the order stored
LabelRate_Express(o) == "r2"

\* generateShippingLabel(orderId, fullOrder.shipping_rate_id)
LabelRate(o) == orders[o].shipping_rate_id

\* the reads for the label and generateShippingLabel, which stores the
\* tracking data of a purchased label with status "ready_to_ship"
AdminLabel(h, purchased) ==
    LET o == jobs[h].order
        meta == intents[orders[o].stripe_payment_intent_id]
    IN /\ jobs[h].kind = "admin"
       /\ jobs[h].pc = "label"
       /\ IF meta.shipping_address_id \notin addresses
          THEN /\ jobs' = [jobs EXCEPT ![h] = JobThrow(h, "Failed to fetch shipping address")]
               /\ UNCHANGED orders
          ELSE IF ~purchased
          THEN /\ jobs' = [jobs EXCEPT ![h] = JobThrow(h, "Failed to generate shipping label")]
               /\ UNCHANGED orders
          ELSE /\ orders' = [orders EXCEPT
                      ![o].status = "ready_to_ship",
                      ![o].tracking_number = LabelTrackingNumber(LabelRate(o))]
               /\ jobs' = [jobs EXCEPT ![h] = [jobs[h] EXCEPT
                      !.pc = "update",
                      !.label = LabelRate(o),
                      !.tracking = LabelTrackingNumber(LabelRate(o))]]
       /\ UNCHANGED << price, inventory, cartItems, addresses, offers, intents,
                       orderItems, procs, joinShape, singleOnEmpty, edits, calls,
                       responses >>

\* orders.update({status, tracking_number}).eq("id", orderId)
AdminUpdate(h) ==
    /\ jobs[h].kind = "admin"
    /\ jobs[h].pc = "update"
    /\ orders' = [orders EXCEPT
           ![jobs[h].order].status = jobs[h].status,
           ![jobs[h].order].tracking_number =
               IF jobs[h].tracking # "" THEN jobs[h].tracking ELSE @]
    /\ jobs' = [jobs EXCEPT ![h] = JobReturn(h)]
    /\ UNCHANGED << price, inventory, cartItems, addresses, offers, intents,
                    orderItems, procs, joinShape, singleOnEmpty, edits, calls,
                    responses >>

\* ------------------------------------------- webhook.controller.ts
\* what a delivery carries in its stripe-signature header
Signatures == {"missing", "invalid", "valid"}
\* the event types delivered here: the payment success and one the switch of
\* handleStripeWebhook has no case for
EventTypes == {"payment_intent.succeeded", "customer.created"}

\* a check that only looks for the header
SignatureOk_PresenceOnly(sig) == sig # "missing"

\* the header is there and stripe.webhooks.constructEvent accepts it
SignatureOk(sig) == sig = "valid"

\* a switch whose default case materializes too
Dispatches_Default(type) == TRUE

\* the case of the switch of handleStripeWebhook that materializes an order
Dispatches(type) == type = "payment_intent.succeeded"

\* a controller that answers every delivery with a client error
WebhookStatus_RejectAll(sig) == 400

\* the status of the response: 400 without a verified signature, else 200,
\* sent without waiting for handleStripeWebhook
WebhookStatus(sig) == IF SignatureOk(sig) THEN 200 ELSE 400

\* handleStripeWebhookRequest: one delivery to POST /api/payment/webhook.
\* The processor signs a payment_intent.succeeded event only for an intent
\* that has succeeded; an unsigned or forged delivery may name any intent.
handleStripeWebhookRequest(h, sig, type, pi) ==
    /\ calls < MaxCalls
    /\ calls' = calls + 1
    /\ pi \in DOMAIN intents
    /\ (sig = "valid" /\ type = "payment_intent.succeeded")
          => intents[pi].status = "succeeded"
    /\ responses' = Append(responses,
           [signature |-> sig, type |-> type, pi |-> pi, status |-> WebhookStatus(sig)])
    /\ IF SignatureOk(sig) /\ Dispatches(type)
       THEN /\ FreeSlot(h)
            /\ procs' = [procs EXCEPT ![h] = [IdleProc EXCEPT !.pc = "check", !.pi = pi]]
       ELSE /\ h = "h1"
            /\ UNCHANGED procs
    /\ UNCHANGED << price, inventory, cartItems, addresses, offers, intents,
                    orders, orderItems, joinShape, singleOnEmpty, edits, jobs >>

\* ------------------------- payment.service.ts: the status webhooks
\* the objects the processor sends: a payment intent names itself, a charge
\* names itself and its payment intent, a dispute and an early fraud warning
\* name their charge
Charges == {"ch_1", "ch_2"}
ChargedAmount == 2
RefundedAmounts == {1, 2}
DisputeStatuses == {"won", "lost", "warning_closed"}
FraudTypes == {"card_never_received"}

\* the payment intent of a charge, as stripe.charges.retrieve answers
ChargeIntent(ch) == IF ch = "ch_1" THEN "pi_1" ELSE "pi_2"

PaymentIntentObject(type, pi, refunded) ==
    [NoEvent EXCEPT !.type = type, !.id = pi, !.amount = ChargedAmount,
                    !.amount_refunded = refunded]

ChargeObject(type, ch, refunded) ==
    [NoEvent EXCEPT !.type = type, !.id = ch, !.payment_intent = ChargeIntent(ch),
                    !.amount = ChargedAmount, !.amount_refunded = refunded]

DisputeObject(type, ch, status) ==
    [NoEvent EXCEPT !.type = type, !.id = "dp_1", !.charge = ch, !.status = status]

FraudWarningObject(type, ch, fraudType) ==
    [NoEvent EXCEPT !.type = type, !.id = "issfr_1", !.charge = ch,
                    !.fraud_type = fraudType]

StatusEvents ==
    { PaymentIntentObject("payment_intent.payment_failed", ChargeIntent(ch), 0) :
         ch \in Charges }
    \cup { PaymentIntentObject("payment_intent.refunded", ChargeIntent(ch), r) :
              ch \in Charges, r \in RefundedAmounts }
    \cup { ChargeObject("charge.refunded", ch, r) : ch \in Charges, r \in RefundedAmounts }
    \cup { DisputeObject("charge.dispute.created", ch, "needs_response") : ch \in Charges }
    \cup { DisputeObject("charge.dispute.updated", ch, "under_review") : ch \in Charges }
    \cup { DisputeObject("charge.dispute.closed", ch, st) :
              ch \in Charges, st \in DisputeStatuses }
    \cup { FraudWarningObject("radar.early_fraud_warning.created", ch, f) :
              ch \in Charges, f \in FraudTypes }
    \cup { FraudWarningObject("radar.early_fraud_warning.updated", ch, f) :
              ch \in Charges, f \in FraudTypes }

\* the switch of handleStripeWebhook: the handler of an event type
HandlerOf(type) ==
    CASE type = "payment_intent.payment_failed" -> "handlePaymentIntentFailed"
      [] type \in {"payment_intent.refunded", "charge.refunded"} -> "handleRefund"
      [] type = "charge.dispute.created" -> "handleDisputeCreated"
      [] type = "charge.dispute.updated" -> "handleDisputeUpdated"
      [] type = "charge.dispute.closed" -> "handleDisputeClosed"
      [] type = "radar.early_fraud_warning.created" -> "handleFraudWarningCreated"
      [] type = "radar.early_fraud_warning.updated" -> "handleFraudWarningUpdated"
      [] OTHER -> "none"

StatusHandlers ==
    {"handlePaymentIntentFailed", "handleRefund", "handleDisputeCreated",
     "handleDisputeUpdated", "handleDisputeClosed", "handleFraudWarningCreated",
     "handleFraudWarningUpdated"}

\* handleRefund: event.id || event.payment_intent
RefundLookupId(event) == IF event.id # "" THEN event.id ELSE event.payment_intent

\* the charge of a dispute or fraud warning, retrieved for its payment intent
\* ("": the handler returns before any lookup)
ChargeLookupId(event) == IF event.charge = "" THEN "" ELSE ChargeIntent(event.charge)

\* the value the handler looks orders.stripe_payment_intent_id up with
LookupId(event) ==
    CASE HandlerOf(event.type) = "handlePaymentIntentFailed" -> event.id
      [] HandlerOf(event.type) = "handleRefund" -> RefundLookupId(event)
      [] OTHER -> ChargeLookupId(event)

\* a handler that marks an order of any status
MarksFailed_Any(status) == TRUE

\* handlePaymentIntentFailed: ["pending", "processing", "paid"].includes(order.status)
MarksFailed(status) == status \in {"pending", "processing", "paid"}

\* handleRefund: "refunded" unless the object carries both amounts and the
\* refunded one is the smaller
RefundStatus(event) ==
    IF event.amount_refunded # 0 /\ event.amount # 0
          /\ event.amount_refunded < event.amount
    THEN "partially_refunded"
    ELSE "refunded"

\* handleDisputeClosed: the order status for the dispute's outcome
DisputeClosedStatus(status) ==
    IF status = "won" THEN "paid"
    ELSE IF status = "lost" THEN "chargeback"
    ELSE "dispute_warning_closed"

\* the columns each handler's update writes, of the columns kept here
HandlerUpdate(row, event) ==
    CASE HandlerOf(event.type) = "handlePaymentIntentFailed" ->
            [row EXCEPT !.status = "payment_failed"]
      [] HandlerOf(event.type) = "handleRefund" ->
            [row EXCEPT !.status = RefundStatus(event)]
      [] HandlerOf(event.type) = "handleDisputeCreated" ->
            [row EXCEPT !.status = "disputed"]
      [] HandlerOf(event.type) = "handleDisputeUpdated" -> row
      [] HandlerOf(event.type) = "handleDisputeClosed" ->
            [row EXCEPT !.status = DisputeClosedStatus(event.status)]
      [] HandlerOf(event.type) = "handleFraudWarningCreated" ->
            [row EXCEPT !.status = "flagged_for_review",
                        !.fraud_warning = TRUE,
                        !.fraud_warning_details = event.fraud_type]
      [] HandlerOf(event.type) = "handleFraudWarningUpdated" ->
            [row EXCEPT !.fraud_warning_details = event.fraud_type]

\* handleStripeWebhook: a verified event reaches its handler
handleStripeWebhook(h, event) ==
    /\ JobFree(h)
    /\ calls < MaxCalls
    /\ calls' = calls + 1
    /\ HandlerOf(event.type) \in StatusHandlers
    /\ jobs' = [jobs EXCEPT ![h] =
           [IdleJob EXCEPT !.kind = HandlerOf(event.type), !.pc = "read",
                           !.event = event]]
    /\ UNCHANGED << price, inventory, cartItems, addresses, offers, intents,
                    orders, orderItems, procs, joinShape, singleOnEmpty, edits,
                    responses >>

\* the handler's read of the order: without one it returns, and
\* handlePaymentIntentFailed returns for an order it does not mark
HandlerRead(h) ==
    LET event == jobs[h].event
        hits == IF LookupId(event) = "" THEN {} ELSE OrdersOf(LookupId(event))
    IN /\ jobs[h].kind \in StatusHandlers
       /\ jobs[h].pc = "read"
       /\ jobs' = [jobs EXCEPT ![h] =
              IF hits = {} THEN JobReturn(h)
              ELSE LET o == CHOOSE i \in hits : TRUE
                   IN IF jobs[h].kind = "handlePaymentIntentFailed"
                         /\ ~MarksFailed(orders[o].status)
                      THEN JobReturn(h)
                      ELSE [jobs[h] EXCEPT !.pc = "update", !.order = o]]
       /\ UNCHANGED << price, inventory, cartItems, addresses, offers, intents,
                       orders, orderItems, procs, joinShape, singleOnEmpty, edits,
                       calls, responses >>

\* the handler's orders.update({...}).eq("id", order.id)
HandlerWrite(h) ==
    LET o == jobs[h].order
    IN /\ jobs[h].kind \in StatusHandlers
       /\ jobs[h].pc = "update"
       /\ orders' = [orders EXCEPT ![o] = HandlerUpdate(orders[o], jobs[h].event)]
       /\ jobs' = [jobs EXCEPT ![h] = JobReturn(h)]
       /\ UNCHANGED << price, inventory, cartItems, addresses, offers, intents,
                       orderItems, procs, joinShape, singleOnEmpty, edits, calls,
                       responses >>

\* ------------------------------------------------------------------ Next
Next ==
    \/ \E c \in Carts, p \in Products, q \in 1..MaxQty : addItemToCart(c, p, q)
    \/ \E c \in Carts, p \in Products, q \in 1..MaxQty : updateCartItem(c, p, q)
    \/ \E c \in Carts, p \in Products : removeCartItem(c, p)
    \/ \E p \in Products, v \in PriceSet : updateProduct(p, v)
    \/ \E a \in AddressIds : deleteUserAddress(a)
    \/ \E t \in QuoteTables : Requote(t)
    \/ \E c \in Carts, sa \in AddressIds, ba \in AddressIds, k \in 1..Len(offers) :
          \* the client sends the service code and the token of a quoted offer
          createPaymentIntent(c, sa, ba, offers[k].service_code, offers[k].rate_id, NoMetadata)
    \/ \E pi \in DOMAIN intents : PaymentSucceeds(pi)
    \/ \E h \in Handlers, pi \in DOMAIN intents : confirmPaymentIntent(h, pi)
    \/ \E h \in Handlers, pi \in DOMAIN intents : handlePaymentIntentSucceeded(h, pi)
    \/ \E h \in Handlers : MatCheck(h)
    \/ \E h \in Handlers : MatCart(h)
    \/ \E h \in Handlers : MatShipAddr(h)
    \/ \E h \in Handlers : MatBillAddr(h)
    \/ \E h \in Handlers : MatRates(h)
    \/ \E h \in Handlers : MatInsertOrder(h)
    \/ \E h \in Handlers, rejected \in BOOLEAN : MatInsertItems(h, rejected)
    \/ \E h \in Handlers : MatInventory(h)
    \/ \E h \in Handlers : MatClearCart(h)

Spec == Init /\ [][Next]_vars

\* the checkout driven by webhook deliveries alone
NextWebhook ==
    \/ \E c \in Carts, sa \in AddressIds, ba \in AddressIds, k \in 1..Len(offers) :
          createPaymentIntent(c, sa, ba, offers[k].service_code, offers[k].rate_id, NoMetadata)
    \/ \E pi \in DOMAIN intents : PaymentSucceeds(pi)
    \/ \E h \in Handlers, sig \in Signatures, type \in EventTypes, pi \in DOMAIN intents :
          handleStripeWebhookRequest(h, sig, type, pi)
    \/ \E h \in Handlers : MatCheck(h)
    \/ \E h \in Handlers : MatCart(h)
    \/ \E h \in Handlers : MatShipAddr(h)
    \/ \E h \in Handlers : MatBillAddr(h)
    \/ \E h \in Handlers : MatRates(h)
    \/ \E h \in Handlers : MatInsertOrder(h)
    \/ \E h \in Handlers, rejected \in BOOLEAN : MatInsertItems(h, rejected)
    \/ \E h \in Handlers : MatInventory(h)
    \/ \E h \in Handlers : MatClearCart(h)

SpecWebhook == Init /\ [][NextWebhook]_vars

\* checkout requests with caller metadata, confirmed on the synchronous path
NextCheckout ==
    \/ \E c \in Carts, sa \in AddressIds, ba \in AddressIds, k \in 1..Len(offers),
          md \in CallerMetadata :
          createPaymentIntent(c, sa, ba, offers[k].service_code, offers[k].rate_id, md)
    \/ \E pi \in DOMAIN intents : PaymentSucceeds(pi)
    \/ \E h \in Handlers, pi \in DOMAIN intents : confirmPaymentIntent(h, pi)
    \/ \E h \in Handlers, pi \in DOMAIN intents : confirmRetrieveFails(h, pi)
    \/ \E h \in Handlers : MatCheck(h)
    \/ \E h \in Handlers : MatCart(h)
    \/ \E h \in Handlers : MatShipAddr(h)
    \/ \E h \in Handlers : MatBillAddr(h)
    \/ \E h \in Handlers : MatRates(h)
    \/ \E h \in Handlers : MatInsertOrder(h)
    \/ \E h \in Handlers, rejected \in BOOLEAN : MatInsertItems(h, rejected)
    \/ \E h \in Handlers : MatInventory(h)
    \/ \E h \in Handlers : MatClearCart(h)

SpecCheckout == Init /\ [][NextCheckout]_vars

\* the store after the checkout of one of the initial carts by its owner: the
\* order of payment intent pi_1 with its items, the inventory lowered, the
\* cart cleared
InitOrders ==
    /\ price = [p \in Products |-> 1000]
    /\ \E cart \in InitCarts :
          LET lines == {p \in Products : cart[p] > 0}
              offer == Quote("r1", "usps_priority", 500)
              subtotal == SumOver(lines, [p \in Products |-> 1000 * cart[p]])
              total == subtotal + RoundTax(subtotal) + FinalRate(offer)
          IN /\ inventory = [p \in Products |-> InitInventory - cart[p]]
             /\ intents = ("pi_1" :>
                   [amount |-> total, cart_id |-> "c1", user_id |-> CartOwner["c1"],
                    shipping_address_id |-> "a1", billing_address_id |-> "a1",
                    shipping_method |-> offer.service_code,
                    shipping_rate_id |-> offer.rate_id, status |-> "succeeded",
                    request |-> RequestFields("c1", "a1", "a1", offer.service_code,
                                              offer.rate_id)])
             /\ orders = << [id |-> 1, status |-> "paid", total_amount |-> total,
                             subtotal |-> subtotal, tax |-> RoundTax(subtotal),
                             shipping_cost |-> FinalRate(offer),
                             stripe_payment_intent_id |-> "pi_1",
                             user_id |-> CartOwner["c1"],
                             shipping_rate_id |-> offer.rate_id,
                             tracking_number |-> "none",
                             fraud_warning |-> FALSE,
                             fraud_warning_details |-> "none"] >>
             /\ orderItems =
                   { [order_id |-> 1, product_id |-> p, quantity |-> cart[p],
                      unit_price |-> 1000, total_price |-> 1000 * cart[p]] : p \in lines }
    /\ cartItems = [c \in Carts |-> ZeroQty]
    /\ addresses = AddressIds
    /\ offers = << Quote("r1", "usps_priority", 500), Quote("r2", "usps_express", 800) >>
    /\ procs = [h \in Handlers |-> IdleProc]
    /\ joinShape = "array"
    /\ singleOnEmpty = "null"
    /\ edits = 0
    /\ calls = 0
    /\ jobs = [h \in Handlers |-> IdleJob]
    /\ responses = << >>

\* the requests of order.service.ts on the orders of the store
NextOrders ==
    \/ \E h \in Handlers, o \in DOMAIN orders, u \in Users : cancelOrder(h, o, u)
    \/ \E h \in Handlers : CancelRead(h)
    \/ \E h \in Handlers : CancelUpdate(h)
    \/ \E h \in Handlers : CancelItems(h)
    \/ \E h \in Handlers : CancelRestore(h)
    \/ \E h \in Handlers, o \in DOMAIN orders, status \in AdminTargets,
          tracking \in TrackingInputs :
          updateOrderStatus(h, o, status, tracking)
    \/ \E h \in Handlers : AdminRead(h)
    \/ \E h \in Handlers, purchased \in BOOLEAN : AdminLabel(h, purchased)
    \/ \E h \in Handlers : AdminUpdate(h)

SpecOrders == InitOrders /\ [][NextOrders]_vars

\* the same requests together with the status webhooks of the processor
NextEvents ==
    \/ NextOrders
    \/ \E h \in Handlers, event \in StatusEvents : handleStripeWebhook(h, event)
    \/ \E h \in Handlers : HandlerRead(h)
    \/ \E h \in Handlers : HandlerWrite(h)

SpecEvents == InitOrders /\ [][NextEvents]_vars

\* =================================================================== claims
PIdSet == {PIds[i] : i \in 1..Len(PIds)}
ItemsOf(i) == {it \in orderItems : it.order_id = i}

RECURSIVE SumTotalPrice(_)
SumTotalPrice(S) ==
    IF S = {} THEN 0
    ELSE LET it == CHOOSE x \in S : TRUE IN it.total_price + SumTotalPrice(S \ {it})

Finished(h) == procs[h].pc = "done"
\* the invocation got as far as the orders insert
ReachedInsert(h) ==
    /\ Finished(h)
    /\ \/ procs[h].result = "created"
       \/ procs[h].err \in {"Failed to create order", "Failed to add order items"}

\* C1: in every reachable state the orders table holds at most one row per
\* payment-intent id, whatever the interleaving of the confirm and webhook
\* invocations of the materializer.
C1_OneOrderPerIntent ==
    \A i, j \in DOMAIN orders :
        orders[i].stripe_payment_intent_id = orders[j].stripe_payment_intent_id => i = j

\* two invocations raced for one intent: the order exists and the later insert
\* was turned down
C1_Witness ==
    \E h \in Handlers :
        /\ Finished(h)
        /\ procs[h].err = "Failed to create order"
        /\ OrdersOf(procs[h].pi) # {}

\* C2: two invocations for the same payment-intent id that both passed the
\* existence check before either inserted both complete without error and
\* return the same order id.
C2_RacingCallsAgree ==
    \A g, h \in Handlers :
        ( /\ g # h
          /\ procs[g].pi = procs[h].pi
          /\ Finished(g) /\ procs[g].result = "created"
          /\ ReachedInsert(h) )
        => /\ procs[h].result \in {"created", "existing"}
           /\ procs[h].orderId = procs[g].orderId

\* C3: an invocation that finds an order for its payment-intent id returns that
\* order's id with created = false and writes nothing: orders, order_items,
\* inventory and cart_items are as before.
C3_ExistingOrderNoWrites ==
    [][ \A h \in Handlers :
          ( /\ procs[h].pc = "check"
            /\ OrdersOf(procs[h].pi) # {}
            /\ procs'[h] # procs[h] )
          => /\ procs'[h].pc = "done"
             /\ procs'[h].result = "existing"
             /\ procs'[h].orderId \in OrdersOf(procs[h].pi)
             /\ UNCHANGED << orders, orderItems, inventory, cartItems >> ]_vars

\* a later invocation has returned the existing order
C3_Witness ==
    \E h \in Handlers :
        /\ Finished(h)
        /\ procs[h].result = "existing"
        /\ procs[h].orderId \in OrdersOf(procs[h].pi)

\* the preconditions of a materialization hold in the current state
PreconditionsHold(pi) ==
    LET meta == intents[pi]
        rates == calculateShippingRates(offers)
        sel == FindByRateId(rates, meta.shipping_rate_id)
    IN /\ CartLines(meta.cart_id) # {}
       /\ meta.shipping_address_id \in addresses
       /\ meta.billing_address_id \in addresses
       /\ sel # 0
       /\ rates[sel].service_code = meta.shipping_method

\* C4: with no order for the payment-intent id and the preconditions holding,
\* the invocation gets past the existence check, its insert adds exactly one
\* order with status 'paid' for that id, and it returns that order's id with
\* created = true.
C4_FirstMaterializationCreates ==
    [][ \A h \in Handlers :
          /\ ( /\ procs[h].pc = "check"
               /\ OrdersOf(procs[h].pi) = {}
               /\ PreconditionsHold(procs[h].pi)
               /\ procs'[h] # procs[h] )
             => procs'[h].result # "error"
          /\ ( /\ procs[h].pc = "insertOrder"
               /\ OrdersOf(procs[h].pi) = {}
               /\ procs'[h] # procs[h] )
             => /\ Len(orders') = Len(orders) + 1
                /\ orders'[Len(orders')].status = "paid"
                /\ orders'[Len(orders')].stripe_payment_intent_id = procs[h].pi
          /\ ( /\ procs[h].pc = "clearCart"
               /\ procs'[h] # procs[h] )
             => /\ procs'[h].result = "created"
                /\ procs'[h].orderId \in OrdersOf(procs[h].pi) ]_vars

\* C5: an orders insert turned down by the uniqueness constraint is not
\* propagated as an error: the invocation returns the id of the order that is
\* there.
C5_UniqueViolationAbsorbed ==
    [][ \A h \in Handlers :
          ( /\ procs[h].pc = "insertOrder"
            /\ UniqueViolation(procs[h].pi)
            /\ procs'[h] # procs[h] )
          => /\ procs'[h].result # "error"
             /\ procs'[h].orderId \in OrdersOf(procs[h].pi) ]_vars

\* C6: the total_amount of every order equals the amount of the payment intent
\* it was materialized from.
C6_TotalIsIntentAmount ==
    \A i \in DOMAIN orders :
        orders[i].total_amount = intents[orders[i].stripe_payment_intent_id].amount

\* an order whose stored total is not what its own breakdown adds up to: the
\* subtotal or the rate moved after the authorization
C6_Witness ==
    \E i \in DOMAIN orders :
        orders[i].total_amount #
            orders[i].subtotal + orders[i].tax + orders[i].shipping_cost

\* C7: for every order whose items were inserted, the total_price of its items
\* sums to its subtotal, and subtotal + tax + shipping_cost is its
\* total_amount, whatever happened to the cart and the prices between the
\* authorization and the materialization.
C7_TotalsConsistent ==
    \A i \in DOMAIN orders :
        ItemsOf(i) # {} =>
            /\ SumTotalPrice(ItemsOf(i)) = orders[i].subtotal
            /\ orders[i].subtotal + orders[i].tax + orders[i].shipping_cost
                   = orders[i].total_amount

C9_DecrementIsExact ==
    [][ \A h \in Handlers :
          ( procs[h].pc = "inventory" /\ procs'[h] # procs[h] )
          => LET p == NextLine(h)
             IN inventory'[p] = inventory[p] - procs[h].qty[p] ]_vars

\* C10: the amount of a new payment intent is S + round(0.07 * S) + R, with S
\* the sum of price times quantity over the lines of the cart and R the price
\* of the quoted offer whose service code is the caller's shipping method.
C10_AuthorizedAmount ==
    [][ \A pi \in PIdSet :
          ( pi \notin DOMAIN intents /\ pi \in DOMAIN intents' )
          => LET c == intents'[pi].cart_id
                 S == SumOver(CartLines(c),
                              [p \in Products |-> price[p] * cartItems[c][p]])
                 k == CHOOSE i \in 1..Len(offers) :
                          offers[i].service_code = intents'[pi].shipping_method
             IN intents'[pi].amount = S + (7 * S + 50) \div 100 + offers[k].amount ]_vars

\* C11: when the offer that the metadata's rate token resolves to at
\* materialization time carries a service code other than the metadata's
\* shipping method, the invocation fails with the shipping-method-mismatch
\* error and writes no order, no order item, no inventory and no cart line.
C11_MismatchCreatesNothing ==
    [][ \A h \in Handlers :
          LET meta == intents[procs[h].pi]
              rates == calculateShippingRates(offers)
          IN ( /\ procs[h].pc = "rates"
               /\ procs'[h] # procs[h]
               /\ \E i \in 1..Len(rates) :
                     /\ rates[i].rate_id = meta.shipping_rate_id
                     /\ \A j \in 1..(i - 1) : rates[j].rate_id # meta.shipping_rate_id
                     /\ rates[i].service_code # meta.shipping_method )
             => /\ procs'[h].pc = "done"
                /\ procs'[h].err = "Shipping method mismatch"
                /\ UNCHANGED << orders, orderItems, inventory, cartItems >> ]_vars

\* the aggregator re-quoted the token under another service code and an
\* invocation has failed on it
C11_Witness ==
    \E h \in Handlers :
        /\ Finished(h)
        /\ procs[h].err = "Shipping method mismatch"
        /\ OrdersOf(procs[h].pi) = {}

\* C12: a cart without lines gets no payment intent from createPaymentIntent,
\* and an invocation of the materializer that reads a cart without lines fails
\* with the empty-cart error and inserts no order.
C12_EmptyCartRejected ==
    [][ /\ \A pi \in PIdSet :
              ( pi \notin DOMAIN intents /\ pi \in DOMAIN intents' )
              => CartLines(intents'[pi].cart_id) # {}
        /\ \A h \in Handlers :
              ( /\ procs[h].pc = "cart"
                /\ procs'[h] # procs[h]
                /\ CartLines(intents[procs[h].pi].cart_id) = {} )
              => /\ procs'[h].pc = "done"
                 /\ procs'[h].err = "Cart is empty"
                 /\ UNCHANGED << orders, orderItems, inventory, cartItems >> ]_vars

\* an invocation has failed on a cart without lines
C12_Witness ==
    \E h \in Handlers :
        /\ Finished(h)
        /\ procs[h].err = "Cart is empty"
        /\ CartLines(intents[procs[h].pi].cart_id) = {}

\* C20: whenever no materialization is in progress every order has at least
\* one order item, also after an order_items insert that the store turned
\* down and after later invocations for the same payment intent.
C20_NoOrderWithoutItems ==
    (\A h \in Handlers : procs[h].pc \in {"idle", "done"})
    => \A i \in DOMAIN orders : ItemsOf(i) # {}

\* the cancelOrder request in slot h takes a step
CancelStep(h, pc) ==
    /\ jobs[h].kind = "cancel"
    /\ jobs[h].pc = pc
    /\ jobs'[h] # jobs[h]

C14_NotCancelableRefused ==
    [][ \A h \in Handlers :
          ( /\ CancelStep(h, "read")
            /\ orders[jobs[h].order].user_id = jobs[h].user
            /\ orders[jobs[h].order].status \notin {"pending", "paid", "processing"} )
          => /\ jobs'[h].pc = "done"
             /\ jobs'[h].err = "Order cannot be cancelled"
             /\ UNCHANGED << orders, inventory >> ]_vars

\* the owner's cancelOrder was refused on a shipped order
C14_Witness ==
    \E h \in Handlers :
        /\ jobs[h].kind = "cancel"
        /\ jobs[h].pc = "done"
        /\ jobs[h].err = "Order cannot be cancelled"
        /\ orders[jobs[h].order].status = "shipped"
        /\ orders[jobs[h].order].user_id = jobs[h].user

\* C15: cancelOrder by a user who does not own the order fails with the
\* order-not-found error and leaves the orders and the inventory as they are.
C15_NotOwnerRefused ==
    [][ \A h \in Handlers :
          ( /\ CancelStep(h, "read")
            /\ orders[jobs[h].order].user_id # jobs[h].user )
          => /\ jobs'[h].pc = "done"
             /\ jobs'[h].err = "Order not found"
             /\ UNCHANGED << orders, inventory >> ]_vars

\* another user's cancelOrder on a paid order was refused
C15_Witness ==
    \E h \in Handlers :
        /\ jobs[h].kind = "cancel"
        /\ jobs[h].pc = "done"
        /\ jobs[h].err = "Order not found"
        /\ orders[jobs[h].order].user_id # jobs[h].user
        /\ orders[jobs[h].order].status = "paid"

\* C19: cancelOrder writes 'cancelled' only over a status that is pending,
\* paid or processing at the moment of the write, however the request is
\* interleaved with updateOrderStatus.
C19_CancelWritesOverCancelable ==
    [][ \A h \in Handlers :
          CancelStep(h, "update")
          => orders[jobs[h].order].status \in {"pending", "paid", "processing"} ]_vars

\* the latest response, and whether this step sent one
LastResponse == responses'[Len(responses')]
Responded == Len(responses') = Len(responses) + 1

\* C16: a delivery whose signature is missing or does not verify is answered
\* with 400 and changes nothing: no handler starts and no order, order item,
\* inventory or cart line is written.
C16_BadSignatureRejected ==
    [][ ( Responded /\ LastResponse.signature # "valid" )
        => /\ LastResponse.status = 400
           /\ UNCHANGED << orders, orderItems, inventory, cartItems, procs >> ]_vars

\* a forged payment_intent.succeeded for an intent that has succeeded was
\* turned down, and no order exists for it
C16_Witness ==
    \E i \in DOMAIN responses :
        /\ responses[i].signature = "invalid"
        /\ responses[i].type = "payment_intent.succeeded"
        /\ intents[responses[i].pi].status = "succeeded"
        /\ responses[i].status = 400
        /\ OrdersOf(responses[i].pi) = {}

\* C17: a delivery with a valid signature and an event type the switch has no
\* case for is answered with 200 and leaves orders, order items, inventory and
\* cart lines as they are; no handler starts.
C17_UnknownEventIgnored ==
    [][ ( /\ Responded
          /\ LastResponse.signature = "valid"
          /\ LastResponse.type = "customer.created" )
        => /\ LastResponse.status = 200
           /\ UNCHANGED << orders, orderItems, inventory, cartItems, procs >> ]_vars

\* a verified delivery of the unhandled type was answered with 200 while the
\* intent it names had succeeded and had no order
C17_Witness ==
    \E i \in DOMAIN responses :
        /\ responses[i].signature = "valid"
        /\ responses[i].type = "customer.created"
        /\ responses[i].status = 200
        /\ intents[responses[i].pi].status = "succeeded"
        /\ orders = << >>

\* C18: every delivery with a valid signature is answered with 200, whatever
\* becomes of the handler it started.
C18_ValidDeliveryAnswered200 ==
    \A i \in DOMAIN responses :
        responses[i].signature = "valid" => responses[i].status = 200

\* a verified payment_intent.succeeded was answered with 200 and the
\* materialization it started has failed
C18_Witness ==
    \E i \in DOMAIN responses, h \in Handlers :
        /\ responses[i].signature = "valid"
        /\ responses[i].type = "payment_intent.succeeded"
        /\ responses[i].status = 200
        /\ procs[h].pi = responses[i].pi
        /\ Finished(h)
        /\ procs[h].result = "error"

\* C22: the inventory of every product is non-negative in every reachable
\* state, whatever the interleaving of cart writes and materializations.
C22_InventoryNonNegative ==
    \A p \in Products : inventory[p] >= 0

\* C29: cancellation raises the inventory of a line's product by the line's
\* quantity at most once per order: with the one order of the store, whose
\* checkout lowered the inventory from InitInventory, no product ever has more
\* than InitInventory, however cancelOrder requests repeat and overlap.
C29_RestoredAtMostOnce ==
    \A p \in Products : inventory[p] <= InitInventory

\* C30: every cart line that the cart-clearing step of an invocation deletes
\* has an order item of the invocation's order for its product, also when
\* the cart was written between the snapshot and the clearing.
C30_DeletedLinesWereOrdered ==
    [][ \A h \in Handlers :
          ( procs[h].pc = "clearCart" /\ procs'[h] # procs[h] )
          => LET c == intents[procs[h].pi].cart_id
             IN \A p \in Products :
                   ( cartItems[c][p] > 0 /\ cartItems'[c][p] = 0 )
                   => \E it \in ItemsOf(procs[h].orderId) : it.product_id = p ]_vars

\* C26: the metadata of every new payment intent carries the request's own
\* cart_id, address ids, shipping method and rate token, and the owner of the
\* cart as user_id, whatever metadata map the caller sent.
C26_MetadataCarriesRequest ==
    [][ \A pi \in PIdSet :
          ( pi \notin DOMAIN intents /\ pi \in DOMAIN intents' )
          => LET meta == intents'[pi]
                 req == meta.request
             IN /\ meta.cart_id = req.cart_id
                /\ meta.shipping_address_id = req.shipping_address_id
                /\ meta.billing_address_id = req.billing_address_id
                /\ meta.shipping_method = req.shipping_method
                /\ meta.shipping_rate_id = req.shipping_rate_id
                /\ meta.user_id = CartOwner[req.cart_id] ]_vars

\* what a checkout precondition failure and a transient failure of an
\* external service leave in a confirm call
PreconditionErrors ==
    {"Cart is empty", "Selected shipping method not available", "Shipping method mismatch"}
TransientErrors == {"processor unreachable"}

\* C27: the response of the confirm path to a materialization that failed a
\* checkout precondition differs from its response to a transient failure of
\* an external service.
C27_PreconditionFailureDistinct ==
    \A g, h \in Handlers :
        ( /\ Finished(g) /\ procs[g].err \in PreconditionErrors
          /\ Finished(h) /\ procs[h].err \in TransientErrors )
        => checkPaymentStatus(procs[g].err) # checkPaymentStatus(procs[h].err)

\* C28: the update that completes an updateOrderStatus to 'shipped' which was
\* sent without a tracking number leaves the order with status 'shipped' and
\* with the tracking number of a label that was purchased with the order's
\* stored shipping_rate_id.
C28_ShippedWithPurchasedLabel ==
    [][ \A h \in Handlers :
          ( /\ jobs[h].kind = "admin"
            /\ jobs[h].pc = "update"
            /\ jobs[h].label # "none"
            /\ jobs'[h] # jobs[h] )
          => LET o == jobs[h].order
             IN /\ jobs'[h].result = "success"
                /\ jobs[h].label = orders[o].shipping_rate_id
                /\ orders'[o].status = "shipped"
                /\ orders'[o].tracking_number
                       = LabelTrackingNumber(orders[o].shipping_rate_id) ]_vars

\* an updateOrderStatus to 'shipped' without a tracking number has returned
\* and the order is shipped under the purchased label's tracking number
C28_Witness ==
    \E h \in Handlers :
        /\ jobs[h].kind = "admin"
        /\ jobs[h].pc = "done"
        /\ jobs[h].result = "success"
        /\ jobs[h].label # "none"
        /\ orders[jobs[h].order].status = "shipped"
        /\ orders[jobs[h].order].tracking_number = "1Z-r1"

\* C21: once an order has status delivered, cancelled, chargeback or refunded,
\* no step of any operation changes its status.
TerminalStatuses == {"delivered", "cancelled", "chargeback", "refunded"}
C21_TerminalStatusKept ==
    [][ \A o \in DOMAIN orders :
          orders[o].status \in TerminalStatuses
             => orders'[o].status = orders[o].status ]_vars

\* C23: the update of a fraud-warning created or updated handler leaves the
\* order flagged, with the warning's details, and with the status it had.
C23_FraudWarningFlagsOnly ==
    [][ \A h \in Handlers :
          ( /\ jobs[h].kind \in {"handleFraudWarningCreated", "handleFraudWarningUpdated"}
            /\ jobs[h].pc = "update"
            /\ jobs'[h].pc = "done" )
          => LET o == jobs[h].order
             IN /\ orders'[o].fraud_warning = TRUE
                /\ orders'[o].fraud_warning_details = jobs[h].event.fraud_type
                /\ orders'[o].status = orders[o].status ]_vars

\* the payment intent a refund object is about: itself, or its charge's
RefundedIntent(event) ==
    IF event.payment_intent # "" THEN event.payment_intent ELSE event.id

\* C24: when handleRefund returns, the order of the refunded payment has
\* status 'refunded' if the refunded amount equals the original amount and
\* 'partially_refunded' if it is smaller, for a payment-intent object and for
\* a charge object.
C24_RefundMarksOrder ==
    [][ \A h \in Handlers :
          ( /\ jobs[h].kind = "handleRefund"
            /\ jobs[h].pc # "done"
            /\ jobs'[h].pc = "done" )
          => \A o \in OrdersOf(RefundedIntent(jobs[h].event)) :
                orders'[o].status =
                    IF jobs[h].event.amount_refunded = jobs[h].event.amount
                    THEN "refunded"
                    ELSE "partially_refunded" ]_vars

C25_WitnessSkipped ==
    \E h \in Handlers, o \in DOMAIN orders :
        /\ jobs[h].kind = "handlePaymentIntentFailed"
        /\ jobs[h].pc = "done"
        /\ jobs[h].order = 0
        /\ orders[o].stripe_payment_intent_id = jobs[h].event.id
        /\ orders[o].status \in {"cancelled", "shipped", "delivered"}

====
